---- MODULE Spec2Model ----
(***************************************************************************)
(* Pose-estimation runtime of DSEC_Object-Detection:                       *)
(*   inference/model.py             PoseEstimationModel (object registry,   *)
(*                                  cuboid template, estimate_pose)         *)
(*   inference/test_pose_estimation.py   video_stream loop and main         *)
(* and the calibration command:                                            *)
(*   camera_calibration/calibration.py   main                               *)
(* A behaviour is one run of one of the two programs: Init chooses which.  *)
(*                                                                         *)
(* Lengths are integers in units of 0.05 mm, so that every dimension the   *)
(* repository registers (44.5, 11.7, 86.2, ...) is an even integer and the *)
(* halving of get_object_3D_points is exact.                               *)
(* The detector (YOLO) and the RANSAC PnP solver are library code: the     *)
(* detector's output is an input drawn from a bounded set, the solver's    *)
(* pnp_ok flag is a nondeterministic Boolean.                              *)
(***************************************************************************)
EXTENDS Integers, Sequences, FiniteSets, TLC

\* ---------------------------------------------------------------- bounds
MaxReg    == 2      \* registry entries
MaxInst   == 2      \* detected instances in one frame
MaxFrames == 2      \* frames the source delivers before end-of-stream
MaxCalFrames == 3   \* frames / images of the calibration source
MaxImages == 3      \* files in one subdirectory of the dataset source

\* ------------------------------------------------------ program constants
TEMPLATE_POINTS == 9     \* the guard  len(keypoints) < 9

cookie_dims == <<890, 890, 220, 140>>    \* [44.5, 44.5, 11,7]  (four elements)
pouch_dims  == <<3620, 894, 890>>        \* [181, 44.7, 44.5]

Names      == {"cookie", "pouch"}
DimsInputs == {cookie_dims, pouch_dims}
\* detector output per instance: a class index and a number of keypoints
ClassInputs    == {0, 1}
KeypointCounts == {5, TEMPLATE_POINTS}

\* calibration command line: --col / --row, --size, --limit, --jump
BoardInputs == {2, 3}
SizeInputs  == {10, 25}
LimitInputs == {0, 1, 2}
JumpInputs  == {0, 1, 2}

\* what cv2.calibrateCamera may return: a 3x3 matrix (fx, fy, cx, cy in
\* pixels) and five distortion coefficients (in 1/1000)
PinholeCamera == << <<800, 0, 320>>, <<0, 800, 240>>, <<0, 0, 1>> >>
PinholeDist   == <<0, 0, 0, 0, 0>>
LensCamera    == << <<650, 0, 310>>, <<0, 655, 250>>, <<0, 0, 1>> >>
LensDist      == <<-120, 35, 1, -2, 0>>
SolveOutputs  == { <<PinholeCamera, PinholeDist>>, <<LensCamera, LensDist>> }

\* dataset splitter: file names are sequences of tokens; "-" and "." are
\* tokens of their own and no other token contains either character
SubdirInputs == { <<"set">>, <<"set", "-", "b">> }
FileInputs ==
  { <<"1", ".", "jpg">>, <<"2", ".", "v", ".", "jpg">>,
    <<"BG_", "3", ".", "jpg">>, <<"1", ".", "png">> }
LabelIdInputs == { <<"1">>, <<"2">> }
\* --split_ratio in tenths: 0.0, 0.5, 0.8 (the default), 1.0
RatioInputs == {0, 5, 8, 10}
RatioDen == 10

VARIABLES
  camera_matrix,    \* self.camera_matrix (<<>> before it is loaded)
  dist_coeffs,      \* self.dist_coeffs
  cap_opens,        \* cv2.VideoCapture(source) calls of video_stream
  checkerboard_size,\* calibration: (args.col, args.row)
  square_size,      \* calibration: args.size
  cal_mode,         \* calibration: "image", "video" or "none"
  cal_limit,        \* calibration: args.limit
  cal_jump,         \* calibration: args.jump
  objp,             \* calibration: the board's 3D points
  objpoints,        \* calibration: accumulated 3D point sets
  imgpoints,        \* calibration: accumulated refined 2D corner sets
  good_frames,      \* calibration counter
  bad_frames,       \* calibration counter
  frame_index,      \* calibration counter
  cal_pool,         \* calibration: frames / images the source has not yet delivered
  cal_opens,        \* calibration: cv2.VideoCapture calls
  cal_reads,        \* calibration: frames / images read successfully
  cal_attempted,    \* history: frames given to findChessboardCorners
  cal_accepted,     \* history: frames in which the board was found
  cal_solves,       \* calibration: cv2.calibrateCamera calls
  cal_result,       \* calibration: (camera_matrix, dist_coeffs) of the solve, <<>> if none
  artifact,         \* the bundle np.savez wrote: a set of <<key, value>>, {} if none
  cal_outcome,      \* calibration: which message ended the run
  summary_printed,  \* calibration: lines 128-131 ran
  exit_status,      \* calibration: process exit status as text, "running" until it ends
  registered_obj,   \* self.registered_obj : list of {'name', 'dim'}
  rm_name,          \* obj_name of the remove_object call in progress ("" if none)
  rm_before,        \* history: self.registered_obj when that call was entered
  pc,               \* position of the program
  headless,         \* video_stream argument
  writer,           \* TRUE when a VideoWriter was created
  paused,           \* video_stream local
  cap_released,     \* cap.release() has run
  frames_read,      \* frames delivered by cap.read() so far
  exit_reason,      \* why the stream loop was left
  object_classes,   \* detector output: class index per instance
  object_keypoints, \* detector output: number of keypoints per instance
  idx,              \* position of the for loop of estimate_pose (1-based)
  object_points,    \* template fetched for the current instance
  frame_rvecs,      \* estimate_pose local
  frame_tvecs,      \* estimate_pose local
  ret_rvecs,        \* second component of the value estimate_pose returned
  ret_tvecs,        \* third component of the value estimate_pose returned
  exit_line,        \* source line at which estimate_pose was left (0: running)
  detect_calls,     \* detect_objects calls made for the current frame
  solve_calls,      \* instances handed to cv2.solvePnPRansac, in call order
  pnp_oks,          \* instances for which cv2.solvePnPRansac reported pnp_ok
  writer_released,  \* writer.release() has run
  frames_written,   \* writer.write calls so far
  frame_img,        \* annotated_frame of video_stream: the instances whose axes are drawn in it
  split_ratio,      \* splitter: args.split_ratio, in tenths
  datasource,       \* splitter: the files under images/, as <<subdir, file name>>
  split_todo,       \* splitter: subdirectories the loop of line 88 has not reached
  train_dir,        \* splitter: file names in train/images
  val_dir,          \* splitter: file names in val/images
  copied,           \* history: <<subdir, file name, "train" or "val">> per shutil.copy
  label_ids,        \* splitter: the ids for which {label_root}/{id}.txt exists
  bg_label,         \* splitter: label_bg/bg.txt exists
  train_labels,     \* splitter: file names in train/labels
  val_labels,       \* splitter: file names in val/labels
  label_log         \* history: <<"train" or "val", image file, label file>> per label copied

camVars == <<camera_matrix, dist_coeffs>>
calArgs == <<checkerboard_size, square_size, cal_mode, cal_limit, cal_jump, objp>>
calRun  == <<objpoints, imgpoints, good_frames, bad_frames, frame_index,
             cal_pool, cal_opens, cal_reads, cal_attempted, cal_accepted>>
calEnd  == <<cal_solves, cal_result, artifact, cal_outcome, summary_printed,
             exit_status>>
calVars == <<calArgs, calRun, calEnd>>

vars == <<camVars, cap_opens, calVars, registered_obj, rm_name, rm_before, pc, headless, writer, paused, cap_released,
          frames_read, exit_reason, object_classes, object_keypoints, idx,
          object_points, frame_rvecs, frame_tvecs, ret_rvecs, ret_tvecs,
          exit_line, detect_calls, solve_calls, pnp_oks, writer_released,
          frames_written, frame_img, split_ratio, datasource, split_todo,
          train_dir, val_dir, copied, label_ids, bg_label, train_labels,
          val_labels, label_log>>

outVars == <<writer_released, frames_written, frame_img>>
splitArgs == <<split_ratio, datasource>>
splitImgs == <<split_todo, train_dir, val_dir, copied>>
splitLbls == <<label_ids, bg_label, train_labels, val_labels, label_log>>
splitVars == <<splitArgs, splitImgs, splitLbls>>

regVars == <<registered_obj, rm_name, rm_before>>
streamVars == <<headless, writer, paused, cap_released, frames_read, exit_reason>>
frameVars  == <<object_classes, object_keypoints, idx, object_points,
                frame_rvecs, frame_tvecs, ret_rvecs, ret_tvecs, exit_line,
                detect_calls, solve_calls, pnp_oks>>

\* ------------------------------------------------------------- registry
\* add_object: append, no check for an existing name
AddObj(reg, obj_name, obj_dim) ==
  Append(reg, [name |-> obj_name, dim |-> obj_dim])

Range(s) == { s[i] : i \in DOMAIN s }

\* a remove_object that drops only the first entry of that name
RECURSIVE RemoveFirst(_, _)
RemoveFirst(reg, obj_name) ==
  IF reg = <<>> THEN <<>>
  ELSE IF Head(reg).name = obj_name THEN Tail(reg)
  ELSE <<Head(reg)>> \o RemoveFirst(Tail(reg), obj_name)

\* a remove_object that hands the kept entries back in reverse order
RemoveObj_reversed(reg, obj_name) ==
  LET kept == SelectSeq(reg, LAMBDA obj : obj.name # obj_name)
  IN [i \in 1..Len(kept) |-> kept[Len(kept) + 1 - i]]

\* remove_object: keep every entry whose name differs
RemoveObj(reg, obj_name) ==
  SelectSeq(reg, LAMBDA obj : obj.name # obj_name)

\* registered_obj[obj_idx] for a 0-based, non-negative obj_idx
Registered(reg, obj_idx) == obj_idx < Len(reg)

\* a guard with a lower threshold
InsufficientKeypoints_low(n) == n < 5

\* line 126: len(keypoints) < 9
InsufficientKeypoints(n) == n < TEMPLATE_POINTS

Half(x) == x \div 2

\* a template whose second and third rows are exchanged
GetObject3DPoints_swapped(reg, obj_idx) ==
  LET length == reg[obj_idx + 1].dim[1]
      width  == reg[obj_idx + 1].dim[2]
      height == reg[obj_idx + 1].dim[3]
  IN << << Half(length), 0 - Half(width), 0 - Half(height) >>,
        << Half(length), Half(width), Half(height) >>,
        << Half(length), 0 - Half(width), Half(height) >>,
        << Half(length), Half(width), 0 - Half(height) >>,
        << 0 - Half(length), 0 - Half(width), 0 - Half(height) >>,
        << 0 - Half(length), 0 - Half(width), Half(height) >>,
        << 0 - Half(length), Half(width), Half(height) >>,
        << 0 - Half(length), Half(width), 0 - Half(height) >>,
        << 0, 0, 0 >> >>

\* get_object_3D_points, lines 80-97
GetObject3DPoints(reg, obj_idx) ==
  LET length == reg[obj_idx + 1].dim[1]
      width  == reg[obj_idx + 1].dim[2]
      height == reg[obj_idx + 1].dim[3]
  IN << << Half(length), 0 - Half(width), 0 - Half(height) >>,
        << Half(length), 0 - Half(width), Half(height) >>,
        << Half(length), Half(width), Half(height) >>,
        << Half(length), Half(width), 0 - Half(height) >>,
        << 0 - Half(length), 0 - Half(width), 0 - Half(height) >>,
        << 0 - Half(length), 0 - Half(width), Half(height) >>,
        << 0 - Half(length), Half(width), Half(height) >>,
        << 0 - Half(length), Half(width), 0 - Half(height) >>,
        << 0, 0, 0 >> >>

\* ------------------------------------------------------------------ Init
\* main of test_pose_estimation.py, lines 139-150: np.load and the two keys
LoadKey(bundle, key) == (CHOOSE e \in bundle : e[1] = key)[2]

\* a bundle with the two values under each other's key
SaveArtifact_swapped(cm, dc) == { <<"camera_matrix", dc>>, <<"dist_coeffs", cm>> }

\* calibration.py line 124: np.savez(..., camera_matrix=..., dist_coeffs=...)
SaveArtifact(cm, dc) == { <<"camera_matrix", cm>>, <<"dist_coeffs", dc>> }

\* the calibration artifact a pose session is started with
ArtifactInputs == { SaveArtifact(LensCamera, LensDist) }

\* the state at the start of main() of either program; the pose program has
\* loaded a calibration artifact and built the session (lines 139-150)
Init ==
  /\ pc \in {"setup", "cal_main", "split_main"}
  /\ \E data \in ArtifactInputs :
       /\ camera_matrix = IF pc = "setup" THEN LoadKey(data, "camera_matrix") ELSE <<>>
       /\ dist_coeffs = IF pc = "setup" THEN LoadKey(data, "dist_coeffs") ELSE <<>>
  /\ cap_opens = 0
  /\ checkerboard_size = <<0, 0>>
  /\ square_size = 0
  /\ cal_mode = "none"
  /\ cal_limit = 0
  /\ cal_jump = 0
  /\ objp = <<>>
  /\ objpoints = <<>>
  /\ imgpoints = <<>>
  /\ good_frames = 0
  /\ bad_frames = 0
  /\ frame_index = 0
  /\ cal_pool = {}
  /\ cal_opens = 0
  /\ cal_reads = 0
  /\ cal_attempted = {}
  /\ cal_accepted = {}
  /\ cal_solves = 0
  /\ cal_result = <<>>
  /\ artifact = {}
  /\ cal_outcome = "none"
  /\ summary_printed = FALSE
  /\ exit_status = "running"
  /\ registered_obj = <<>>
  /\ rm_name = ""
  /\ rm_before = <<>>
  /\ headless = FALSE
  /\ writer = FALSE
  /\ paused = FALSE
  /\ cap_released = FALSE
  /\ frames_read = 0
  /\ exit_reason = "none"
  /\ object_classes = <<>>
  /\ object_keypoints = <<>>
  /\ idx = 0
  /\ object_points = <<>>
  /\ frame_rvecs = <<>>
  /\ frame_tvecs = <<>>
  /\ ret_rvecs = <<>>
  /\ ret_tvecs = <<>>
  /\ exit_line = 0
  /\ detect_calls = 0
  /\ solve_calls = <<>>
  /\ pnp_oks = {}
  /\ writer_released = FALSE
  /\ frames_written = 0
  /\ frame_img = {}
  /\ split_ratio = 0
  /\ datasource = {}
  /\ split_todo = {}
  /\ train_dir = {}
  /\ val_dir = {}
  /\ copied = {}
  /\ label_ids = {}
  /\ bg_label = FALSE
  /\ train_labels = {}
  /\ val_labels = {}
  /\ label_log = {}

\* ------------------------------------------------- registry operations
\* add_object, lines 29-33
AddObject ==
  /\ pc = "setup"
  /\ Len(registered_obj) < MaxReg
  /\ \E obj_name \in Names, obj_dim \in DimsInputs :
       registered_obj' = AddObj(registered_obj, obj_name, obj_dim)
  /\ UNCHANGED <<rm_name, rm_before, pc, streamVars, frameVars>>
  /\ UNCHANGED <<camVars, cap_opens, calVars, outVars, splitVars>>

\* remove_object, line 40: the list is rebuilt without the name
RemoveObject ==
  /\ pc = "setup"
  /\ \E obj_name \in Names :
       /\ rm_name' = obj_name
       /\ registered_obj' = RemoveObj(registered_obj, obj_name)
  /\ rm_before' = registered_obj
  /\ pc' = "removed"
  /\ UNCHANGED <<streamVars, frameVars>>
  /\ UNCHANGED <<camVars, cap_opens, calVars, outVars, splitVars>>

\* remove_object, lines 41-45: the prints, then the call returns
RemoveReturn ==
  /\ pc = "removed"
  /\ pc' = "setup"
  /\ rm_name' = ""
  /\ rm_before' = <<>>
  /\ UNCHANGED <<registered_obj, streamVars, frameVars>>
  /\ UNCHANGED <<camVars, cap_opens, calVars, outVars, splitVars>>

\* ----------------------------------------------------------- video_stream
\* a finally block that forgets the writer
Finally_capOnly(reason) ==
  /\ cap_released' = TRUE
  /\ writer_released' = FALSE
  /\ exit_reason' = reason
  /\ pc' = "stopped"

\* the effect of the finally block, lines 87-93
Finally(reason) ==
  /\ cap_released' = TRUE
  /\ writer_released' = writer
  /\ exit_reason' = reason
  /\ pc' = "stopped"

\* the values of one estimate_pose call, before the call and once dead; the
\* two result lists stay as the last call left them until lines 122-123 of
\* the next call bind fresh ones
ClearFrame ==
  /\ object_classes' = <<>>
  /\ object_keypoints' = <<>>
  /\ idx' = 0
  /\ object_points' = <<>>
  /\ UNCHANGED <<frame_rvecs, frame_tvecs>>
  /\ ret_rvecs' = <<>>
  /\ ret_tvecs' = <<>>
  /\ exit_line' = 0
  /\ detect_calls' = 0
  /\ solve_calls' = <<>>
  /\ pnp_oks' = {}

\* lines 28-45: the source cannot be opened, video_stream returns at line 34
OpenFailed ==
  /\ pc = "setup"
  /\ pc' = "not_opened"
  /\ exit_reason' = "open_failed"
  /\ UNCHANGED <<regVars, headless, writer, paused, cap_released,
                 frames_read, frameVars>>
  /\ cap_opens' = cap_opens + 1
  /\ UNCHANGED <<camVars, calVars, outVars, splitVars>>

\* lines 28-45: the source opens; a writer exists only for an mp4 input with
\* an output path
OpenStream ==
  /\ pc = "setup"
  /\ \E h \in BOOLEAN, w \in BOOLEAN :
       /\ headless' = h
       /\ writer' = w
  /\ paused' = FALSE
  /\ pc' = "loop_top"
  /\ UNCHANGED <<regVars, cap_released, frames_read, exit_reason, frameVars>>
  /\ cap_opens' = cap_opens + 1
  /\ UNCHANGED <<camVars, calVars, outVars, splitVars>>

\* lines 49-53: cap.read() reports ret = False (end of stream or read failure)
ReadFailed ==
  /\ pc = "loop_top"
  /\ ~paused
  /\ Finally("eos")
  /\ UNCHANGED <<regVars, headless, writer, paused, frames_read, frameVars>>
  /\ UNCHANGED <<camVars, cap_opens, calVars, frames_written, frame_img,
                 splitVars>>

\* lines 49-57: cap.read() delivers a frame and estimate_pose is entered
ReadFrame ==
  /\ pc = "loop_top"
  /\ ~paused
  /\ frames_read < MaxFrames
  /\ frames_read' = frames_read + 1
  /\ pc' = "detect"
  /\ UNCHANGED <<regVars, headless, writer, paused, cap_released,
                 exit_reason, frameVars>>
  /\ frame_img' = {}    \* the last annotated frame is dead; line 55 binds a new one
  /\ UNCHANGED <<camVars, cap_opens, calVars, writer_released, frames_written,
                 splitVars>>

\* line 49 with paused = True: the read and the estimate are skipped
SkipWhilePaused ==
  /\ pc = "loop_top"
  /\ paused
  /\ pc' = "keys"
  /\ UNCHANGED <<regVars, streamVars, frameVars>>
  /\ UNCHANGED <<camVars, cap_opens, calVars, outVars, splitVars>>

\* ---------------------------------------------------------- estimate_pose
FrameInputs ==
  UNION { [1..n -> ClassInputs \X KeypointCounts] : n \in 0..MaxInst }

\* an estimate_pose that goes on with the result lists of the last call
Detect_keepsLists ==
  /\ pc = "detect"
  /\ \E f \in FrameInputs :
       /\ object_classes' = [i \in 1..Len(f) |-> f[i][1]]
       /\ object_keypoints' = [i \in 1..Len(f) |-> f[i][2]]
  /\ detect_calls' = detect_calls + 1
  /\ idx' = 1
  /\ pc' = "for_loop"
  /\ UNCHANGED <<regVars, streamVars, object_points, ret_rvecs,
                 ret_tvecs, exit_line, solve_calls, pnp_oks, frame_rvecs, frame_tvecs>>
  /\ UNCHANGED <<camVars, cap_opens, calVars, outVars, splitVars>>

\* lines 120-123: detect_objects, then the two empty result lists
Detect ==
  /\ pc = "detect"
  /\ \E f \in FrameInputs :
       /\ object_classes' = [i \in 1..Len(f) |-> f[i][1]]
       /\ object_keypoints' = [i \in 1..Len(f) |-> f[i][2]]
  /\ detect_calls' = detect_calls + 1
  /\ frame_rvecs' = <<>>
  /\ frame_tvecs' = <<>>
  /\ idx' = 1
  /\ pc' = "for_loop"
  /\ UNCHANGED <<regVars, streamVars, object_points, ret_rvecs,
                 ret_tvecs, exit_line, solve_calls, pnp_oks>>
  /\ UNCHANGED <<camVars, cap_opens, calVars, outVars, splitVars>>

InLoop == pc = "for_loop" /\ idx <= Len(object_classes)

\* a short-keypoints return that hands back the rotations collected so far
ForShortKeypoints_keepsRvecs ==
  /\ InLoop
  /\ InsufficientKeypoints(object_keypoints[idx])
  /\ ret_rvecs' = frame_rvecs
  /\ ret_tvecs' = <<>>
  /\ exit_line' = 127
  /\ pc' = "returned"
  /\ UNCHANGED <<regVars, streamVars, object_classes, object_keypoints,
                 idx, object_points, frame_rvecs, frame_tvecs, detect_calls,
                 solve_calls, pnp_oks>>
  /\ UNCHANGED <<camVars, cap_opens, calVars, outVars, splitVars>>

\* lines 126-127: fewer than 9 keypoints, return annotated_image, [], []
ForShortKeypoints ==
  /\ InLoop
  /\ InsufficientKeypoints(object_keypoints[idx])
  /\ ret_rvecs' = <<>>
  /\ ret_tvecs' = <<>>
  /\ exit_line' = 127
  /\ pc' = "returned"
  /\ UNCHANGED <<regVars, streamVars, object_classes, object_keypoints,
                 idx, object_points, frame_rvecs, frame_tvecs, detect_calls,
                 solve_calls, pnp_oks>>
  /\ UNCHANGED <<camVars, cap_opens, calVars, outVars, splitVars>>

\* line 129 -> line 80: registered_obj[obj_idx] raises IndexError; nothing
\* catches it, so it leaves estimate_pose and video_stream through finally
ForIndexError ==
  /\ InLoop
  /\ ~InsufficientKeypoints(object_keypoints[idx])
  /\ ~Registered(registered_obj, object_classes[idx])
  /\ exit_line' = 129
  /\ Finally("exception")
  /\ UNCHANGED <<regVars, headless, writer, paused, frames_read,
                 object_classes, object_keypoints, idx, object_points,
                 frame_rvecs, frame_tvecs, ret_rvecs, ret_tvecs, detect_calls,
                 solve_calls, pnp_oks>>
  /\ UNCHANGED <<camVars, cap_opens, calVars, frames_written, frame_img,
                 splitVars>>

\* lines 129-146: template lookup, solvePnPRansac, append on pnp_ok
ForSolve ==
  /\ InLoop
  /\ ~InsufficientKeypoints(object_keypoints[idx])
  /\ Registered(registered_obj, object_classes[idx])
  /\ object_points' = GetObject3DPoints(registered_obj, object_classes[idx])
  /\ solve_calls' = Append(solve_calls, idx)
  /\ \E pnp_ok \in BOOLEAN :
       /\ pnp_oks' = IF pnp_ok THEN pnp_oks \cup {idx} ELSE pnp_oks
       /\ frame_rvecs' = IF pnp_ok THEN Append(frame_rvecs, <<"rvec", idx>>)
                                   ELSE frame_rvecs
       /\ frame_tvecs' = IF pnp_ok THEN Append(frame_tvecs, <<"tvec", idx>>)
                                   ELSE frame_tvecs
  /\ idx' = idx + 1
  /\ UNCHANGED <<regVars, pc, streamVars, object_classes,
                 object_keypoints, ret_rvecs, ret_tvecs, exit_line, detect_calls>>
  /\ UNCHANGED <<camVars, cap_opens, calVars, outVars, splitVars>>

\* line 149: the loop is exhausted, return the collected lists
ForEnd ==
  /\ pc = "for_loop"
  /\ idx > Len(object_classes)
  /\ ret_rvecs' = frame_rvecs
  /\ ret_tvecs' = frame_tvecs
  /\ exit_line' = 149
  /\ pc' = "returned"
  /\ UNCHANGED <<regVars, streamVars, object_classes, object_keypoints,
                 idx, object_points, frame_rvecs, frame_tvecs, detect_calls,
                 solve_calls, pnp_oks>>
  /\ UNCHANGED <<camVars, cap_opens, calVars, outVars, splitVars>>

\* ------------------------------------------------ video_stream, continued
\* an overlay step that rescales the session's camera matrix
AfterEstimate_rescales ==
  /\ pc = "returned"
  /\ pc' = "keys"
  /\ ClearFrame
  /\ camera_matrix' = PinholeCamera
  /\ UNCHANGED <<regVars, streamVars, dist_coeffs, cap_opens, calVars, outVars,
                 splitVars>>

\* utility.py lines 23-32: projectPoints, then circle and lines drawn into
\* img itself, which is returned
VisualizePose(img, rvec, tvec, cm, dc) == img \cup {rvec[2]}

\* line 59: the condition in front of the overlay loop
OverlayGuard(rvecs, tvecs) ==
  Len(rvecs) = Len(tvecs) \/ Len(rvecs) # 0 \/ Len(tvecs) # 0

\* lines 62-66: for rvec, tvec in zip(...): annotated_frame = visualize_pose(...)
RECURSIVE DrawPoses(_, _, _)
DrawPoses(img, rvecs, tvecs) ==
  IF rvecs = <<>> \/ tvecs = <<>> THEN img
  ELSE DrawPoses(VisualizePose(img, Head(rvecs), Head(tvecs),
                               camera_matrix, dist_coeffs),
                 Tail(rvecs), Tail(tvecs))

\* lines 59-73: overlay onto annotated_frame, imshow, writer.write.
\* The values of the estimate_pose call are dead from here on (every one is
\* assigned again before it is read), so the model drops them.
AfterEstimate ==
  /\ pc = "returned"
  /\ pc' = "keys"
  /\ frame_img' = IF OverlayGuard(ret_rvecs, ret_tvecs)
                    THEN DrawPoses(frame_img, ret_rvecs, ret_tvecs)
                    ELSE frame_img
  /\ frames_written' = IF writer THEN frames_written + 1 ELSE frames_written
  /\ ClearFrame
  /\ UNCHANGED <<regVars, streamVars, writer_released>>
  /\ UNCHANGED <<camVars, cap_opens, calVars, splitVars>>

\* line 75 with headless: no key is polled
NoKeyPoll ==
  /\ pc = "keys"
  /\ headless
  /\ pc' = "loop_top"
  /\ UNCHANGED <<regVars, streamVars, frameVars>>
  /\ UNCHANGED <<camVars, cap_opens, calVars, outVars, splitVars>>

\* lines 76-79: key 'q'
KeyQuit ==
  /\ pc = "keys"
  /\ ~headless
  /\ Finally("quit")
  /\ UNCHANGED <<regVars, headless, writer, paused, frames_read, frameVars>>
  /\ UNCHANGED <<camVars, cap_opens, calVars, frames_written, frame_img,
                 splitVars>>

\* lines 80-85: key 'p', key 'r', or any other key / no key
KeyOther ==
  /\ pc = "keys"
  /\ ~headless
  /\ \E key \in {"p", "r", "none"} :
       paused' = IF key = "p" THEN TRUE
                 ELSE IF key = "r" THEN FALSE
                 ELSE paused
  /\ pc' = "loop_top"
  /\ UNCHANGED <<regVars, headless, writer, cap_released, frames_read,
                 exit_reason, frameVars>>
  /\ UNCHANGED <<camVars, cap_opens, calVars, outVars, splitVars>>

\* ================================================= calibration command
poseVars == <<cap_opens, regVars, streamVars, frameVars, outVars>>

\* np.mgrid[0:C, 0:R]: an array of shape (2, C, R)
Mgrid(C, R) ==
  [a \in 0..1 |-> [i \in 0..(C - 1) |-> [j \in 0..(R - 1) |->
     IF a = 0 THEN i ELSE j]]]

\* .T of an array of shape (2, C, R): shape (R, C, 2), axes reversed
Transposed(m, C, R) ==
  [j \in 0..(R - 1) |-> [i \in 0..(C - 1) |-> [a \in 0..1 |-> m[a][i][j]]]]

\* the board with rows and columns exchanged
BoardObjp_rowsFirst(cbs, size) ==
  [k \in 1..(cbs[1] * cbs[2]) |->
     << ((k - 1) \div cbs[2]) * size, ((k - 1) % cbs[2]) * size, 0 >>]

\* lines 29-31: zeros((C*R, 3)); the first two columns are
\* mgrid.T.reshape(-1, 2) (row k of the reshape is t[k div C][k mod C]);
\* everything times square_size
BoardObjp(cbs, size) ==
  LET C == cbs[1]
      R == cbs[2]
      t == Transposed(Mgrid(C, R), C, R)
  IN [k \in 1..(C * R) |->
        << t[(k - 1) \div C][(k - 1) % C][0] * size,
           t[(k - 1) \div C][(k - 1) % C][1] * size,
           0 * size >>]

\* the refined corners cornerSubPix returns for frame f
Corners(f) == <<"corners", f>>

\* an accumulator that keeps only the newest sample
AddSample_replace(list, x) == <<x>>

\* lines 60 and 62 (100 and 102): list.append
AddSample(list, x) == Append(list, x)

\* a failed-detection counter that counts every frame
CountBad_always(bad, ret) == bad + 1

\* lines 56-57 and 68-69 (96-97 and 108-109): one of the two counters
CountGood(good, ret) == IF ret THEN good + 1 ELSE good
CountBad(bad, ret) == IF ret THEN bad ELSE bad + 1

\* a calibration section without the emptiness test
HasSamples_always(op, ip) == TRUE

\* line 118: if objpoints and imgpoints
HasSamples(op, ip) == op # <<>> /\ ip # <<>>

\* a limit test that lets one more frame through
LimitReached_late == cal_limit > 0 /\ frame_index > cal_limit

\* lines 44 and 82: args.limit > 0 and frame_index >= args.limit
LimitReached == cal_limit > 0 /\ frame_index >= cal_limit

\* a jump test with period J instead of J + 1
JumpSkips_period == cal_jump > 0 /\ frame_index % cal_jump # 0

\* line 89: args.jump > 0 and frame_index % (args.jump + 1) != 0
JumpSkips == cal_jump > 0 /\ frame_index % (cal_jump + 1) # 0

\* lines 20-22: neither --video_path nor --image_dir; exit() ends with status 0
CalNoSource ==
  /\ pc = "cal_main"
  /\ cal_outcome' = "no_source"
  /\ exit_status' = "0"
  /\ pc' = "cal_exit"
  /\ UNCHANGED <<camVars, poseVars, splitVars, calArgs, calRun, cal_solves, cal_result,
                 artifact, summary_printed>>

\* lines 24-42 / 24-38 and 74: the arguments, objp, the empty accumulators;
\* --image_dir takes precedence over --video_path
CalBegin ==
  /\ pc = "cal_main"
  /\ \E col \in BoardInputs, row \in BoardInputs, size \in SizeInputs :
       /\ checkerboard_size' = <<col, row>>
       /\ square_size' = size
       /\ objp' = BoardObjp(<<col, row>>, size)
  /\ \E mode \in {"image", "video"} :
       /\ cal_mode' = mode
       /\ pc' = IF mode = "image" THEN "cal_images" ELSE "cal_open"
  /\ cal_limit' \in LimitInputs
  /\ cal_jump' \in JumpInputs
  /\ \E n \in 0..MaxCalFrames : cal_pool' = 1..n
  /\ UNCHANGED <<camVars, poseVars, splitVars, objpoints, imgpoints, good_frames,
                 bad_frames, frame_index, cal_opens, cal_reads, cal_attempted,
                 cal_accepted, calEnd>>

\* what one pass over findChessboardCorners / cornerSubPix does with frame f
Extract(f, ret) ==
  /\ cal_pool' = cal_pool \ {f}
  /\ cal_reads' = cal_reads + 1
  /\ cal_attempted' = cal_attempted \cup {f}
  /\ cal_accepted' = IF ret THEN cal_accepted \cup {f} ELSE cal_accepted
  /\ good_frames' = CountGood(good_frames, ret)
  /\ bad_frames' = CountBad(bad_frames, ret)
  /\ objpoints' = IF ret THEN AddSample(objpoints, objp) ELSE objpoints
  /\ imgpoints' = IF ret THEN AddSample(imgpoints, Corners(f)) ELSE imgpoints
  /\ frame_index' = frame_index + 1

\* lines 43-45: the limit ends the loop over the image paths
CalImgBreak ==
  /\ pc = "cal_images"
  /\ cal_pool # {}
  /\ LimitReached
  /\ pc' = "cal_calib"
  /\ UNCHANGED <<camVars, poseVars, splitVars, calArgs, calRun, calEnd>>

\* line 43: no path is left
CalImgEnd ==
  /\ pc = "cal_images"
  /\ cal_pool = {}
  /\ pc' = "cal_calib"
  /\ UNCHANGED <<camVars, poseVars, splitVars, calArgs, calRun, calEnd>>

\* lines 47-51: cv2.imread returns None, continue without counting
CalImgUnreadable ==
  /\ pc = "cal_images"
  /\ ~LimitReached
  /\ \E f \in cal_pool : cal_pool' = cal_pool \ {f}
  /\ UNCHANGED <<camVars, poseVars, splitVars, calArgs, objpoints, imgpoints, good_frames,
                 bad_frames, frame_index, cal_opens, cal_reads, cal_attempted,
                 cal_accepted, calEnd, pc>>

\* lines 47-72: one image, board found or not
CalImgExtract ==
  /\ pc = "cal_images"
  /\ ~LimitReached
  /\ \E f \in cal_pool, ret \in BOOLEAN : Extract(f, ret)
  /\ UNCHANGED <<camVars, poseVars, splitVars, calArgs, cal_opens, calEnd, pc>>

\* an open failure after which the run goes on into the frame loop
CalOpenFailed_goesOn ==
  /\ pc = "cal_open"
  /\ cal_opens' = cal_opens + 1
  /\ cal_outcome' = "open_failed"
  /\ pc' = "cal_video"
  /\ UNCHANGED <<camVars, poseVars, splitVars, calArgs, objpoints, imgpoints, good_frames,
                 bad_frames, frame_index, cal_pool, cal_reads, cal_attempted,
                 cal_accepted, cal_solves, cal_result, artifact, summary_printed,
                 exit_status>>

\* lines 76-79: the video cannot be opened; exit() ends with status 0
CalOpenFailed ==
  /\ pc = "cal_open"
  /\ cal_opens' = cal_opens + 1
  /\ cal_outcome' = "open_failed"
  /\ exit_status' = "0"
  /\ pc' = "cal_exit"
  /\ UNCHANGED <<camVars, poseVars, splitVars, calArgs, objpoints, imgpoints, good_frames,
                 bad_frames, frame_index, cal_pool, cal_reads, cal_attempted,
                 cal_accepted, cal_solves, cal_result, artifact, summary_printed>>

\* lines 76-77: the video opens
CalOpenVideo ==
  /\ pc = "cal_open"
  /\ cal_opens' = cal_opens + 1
  /\ pc' = "cal_video"
  /\ UNCHANGED <<camVars, poseVars, splitVars, calArgs, objpoints, imgpoints, good_frames,
                 bad_frames, frame_index, cal_pool, cal_reads, cal_attempted,
                 cal_accepted, calEnd>>

\* lines 82-83, then 114-115: the limit ends the loop
CalVidBreak ==
  /\ pc = "cal_video"
  /\ LimitReached
  /\ pc' = "cal_calib"
  /\ UNCHANGED <<camVars, poseVars, splitVars, calArgs, calRun, calEnd>>

\* lines 85-87, then 114-115: cap.read() reports ret = False
CalVidReadFailed ==
  /\ pc = "cal_video"
  /\ ~LimitReached
  /\ pc' = "cal_calib"
  /\ UNCHANGED <<camVars, poseVars, splitVars, calArgs, calRun, calEnd>>

\* lines 85-91: a frame is read and skipped by --jump
CalVidSkip ==
  /\ pc = "cal_video"
  /\ ~LimitReached
  /\ JumpSkips
  /\ \E f \in cal_pool : cal_pool' = cal_pool \ {f}
  /\ cal_reads' = cal_reads + 1
  /\ frame_index' = frame_index + 1
  /\ UNCHANGED <<camVars, poseVars, splitVars, calArgs, objpoints, imgpoints, good_frames,
                 bad_frames, cal_opens, cal_attempted, cal_accepted, calEnd, pc>>

\* lines 85-112: one frame, board found or not
CalVidExtract ==
  /\ pc = "cal_video"
  /\ ~LimitReached
  /\ ~JumpSkips
  /\ \E f \in cal_pool, ret \in BOOLEAN : Extract(f, ret)
  /\ UNCHANGED <<camVars, poseVars, splitVars, calArgs, cal_opens, calEnd, pc>>

\* lines 118-124: calibrateCamera over all samples, then np.savez
CalCalibrate ==
  /\ pc = "cal_calib"
  /\ HasSamples(objpoints, imgpoints)
  /\ cal_solves' = cal_solves + 1
  /\ \E o \in SolveOutputs :
       /\ cal_result' = o
       /\ artifact' = SaveArtifact(o[1], o[2])
  /\ cal_outcome' = "calibrated"
  /\ pc' = "cal_summary"
  /\ UNCHANGED <<camVars, poseVars, splitVars, calArgs, calRun, summary_printed, exit_status>>

\* lines 125-126: "No valid checkerboard patterns were detected."
CalNoSamples ==
  /\ pc = "cal_calib"
  /\ ~HasSamples(objpoints, imgpoints)
  /\ cal_outcome' = "no_samples"
  /\ pc' = "cal_summary"
  /\ UNCHANGED <<camVars, poseVars, splitVars, calArgs, calRun, cal_solves, cal_result,
                 artifact, summary_printed, exit_status>>

\* lines 128-134: the summary, then main returns and the process ends with 0
CalSummary ==
  /\ pc = "cal_summary"
  /\ summary_printed' = TRUE
  /\ exit_status' = "0"
  /\ pc' = "cal_done"
  /\ UNCHANGED <<camVars, poseVars, splitVars, calArgs, calRun, cal_solves, cal_result,
                 artifact, cal_outcome>>

\* test_pose_estimation.py lines 139-141: the pose runtime loads the bundle
\* the calibration wrote
LoadCalibration ==
  /\ pc = "cal_done"
  /\ artifact # {}
  /\ camera_matrix' = LoadKey(artifact, "camera_matrix")
  /\ dist_coeffs' = LoadKey(artifact, "dist_coeffs")
  /\ pc' = "loaded"
  /\ UNCHANGED <<poseVars, splitVars, calVars>>

\* ===================================================== dataset splitter
\* str.endswith
EndsWith(str, suffix) ==
  /\ Len(str) >= Len(suffix)
  /\ SubSeq(str, Len(str) - Len(suffix) + 1, Len(str)) = suffix

\* str.split(sep): the pieces between the separators, empty pieces included
RECURSIVE Split(_, _)
Split(str, sep) ==
  IF \A i \in 1..Len(str) : str[i] # sep THEN << str >>
  ELSE LET i == CHOOSE i \in 1..Len(str) :
                  str[i] = sep /\ \A j \in 1..(i - 1) : str[j] # sep
       IN << SubSeq(str, 1, i - 1) >> \o Split(SubSeq(str, i + 1, Len(str)), sep)

\* lines 89-90: the .jpg files of a subdirectory
Listing(subdir) == { f \in FileInputs : <<subdir, f>> \in datasource }
Jpgs(subdir) == { f \in Listing(subdir) : EndsWith(f, <<".", "jpg">>) }

\* line 91: random.shuffle leaves the list in any order
Shuffles(S) ==
  { images \in [1..Cardinality(S) -> S] :
      \A a, b \in 1..Cardinality(S) : a # b => images[a] # images[b] }

\* a split point rounded up
SplitPoint_ceil(n, ratio) == (n * ratio + RatioDen - 1) \div RatioDen

\* line 93: int(len(images) * split_ratio)
SplitPoint(n, ratio) == (n * ratio) \div RatioDen

\* lines 98 and 102: f"{subdir}-{img}"
NewName(subdir, img) == subdir \o <<"-">> \o img

\* line 129: img_file.split("-")[-1].split(".")[0]
ImgId(img_file) ==
  LET parts == Split(img_file, "-")
  IN Split(parts[Len(parts)], ".")[1]

\* line 130: img_file.split("-")[0]
SubdirOf(img_file) == Split(img_file, "-")[1]

\* line 132: "BG_" in img_file
IsBackground(img_file) == \E i \in 1..Len(img_file) : img_file[i] = "BG_"

\* lines 132-137: the label file looked for exists
LabelSourceExists(img_file, ids, bg) ==
  IF ~IsBackground(img_file) THEN ImgId(img_file) \in ids ELSE bg

\* line 138: f"{subdir}-{img_id}.txt"
NewLabelName(img_file) ==
  SubdirOf(img_file) \o <<"-">> \o ImgId(img_file) \o <<".", "txt">>

\* lines 127-139: the images of a directory for which a label is copied
Labelled(images_dir, ids, bg) ==
  { f \in images_dir : EndsWith(f, <<".", "jpg">>) /\ LabelSourceExists(f, ids, bg) }

\* lines 183-208: the arguments, the subdirectories of images/ and their files
SplitBegin ==
  /\ pc = "split_main"
  /\ split_ratio' \in RatioInputs
  /\ \E dirs \in SUBSET SubdirInputs :
       /\ split_todo' = dirs
       /\ \E ds \in SUBSET (dirs \X FileInputs) :
            /\ \A d \in dirs :
                 Cardinality({ f \in FileInputs : <<d, f>> \in ds }) <= MaxImages
            /\ datasource' = ds
  /\ pc' = "split_images"
  /\ UNCHANGED <<camVars, poseVars, calVars, train_dir, val_dir, copied, splitLbls>>

\* lines 88-103: one subdirectory is listed, shuffled, split and copied
SplitSubdir ==
  /\ pc = "split_images"
  /\ \E subdir \in split_todo :
       /\ split_todo' = split_todo \ {subdir}
       /\ \E images \in Shuffles(Jpgs(subdir)) :
            LET split_point == SplitPoint(Len(images), split_ratio)
                train_images == SubSeq(images, 1, split_point)
                val_images == SubSeq(images, split_point + 1, Len(images))
            IN /\ train_dir' = train_dir \cup
                     { NewName(subdir, train_images[k]) : k \in 1..Len(train_images) }
               /\ val_dir' = val_dir \cup
                     { NewName(subdir, val_images[k]) : k \in 1..Len(val_images) }
               /\ copied' = copied
                     \cup { <<subdir, train_images[k], "train">> : k \in 1..Len(train_images) }
                     \cup { <<subdir, val_images[k], "val">> : k \in 1..Len(val_images) }
  /\ UNCHANGED <<camVars, poseVars, calVars, splitArgs, splitLbls, pc>>

\* line 211: copy_labels for train/images; the label files that exist are
\* whatever the label directory holds
CopyLabelsTrain ==
  /\ pc = "split_images"
  /\ split_todo = {}
  /\ \E ids \in SUBSET LabelIdInputs, bg \in BOOLEAN :
       /\ label_ids' = ids
       /\ bg_label' = bg
       /\ train_labels' = train_labels \cup
            { NewLabelName(f) : f \in Labelled(train_dir, ids, bg) }
       /\ label_log' = label_log \cup
            { <<"train", f, NewLabelName(f)>> : f \in Labelled(train_dir, ids, bg) }
  /\ pc' = "split_val_labels"
  /\ UNCHANGED <<camVars, poseVars, calVars, splitArgs, splitImgs, val_labels>>

\* line 212: copy_labels for val/images
CopyLabelsVal ==
  /\ pc = "split_val_labels"
  /\ val_labels' = val_labels \cup
       { NewLabelName(f) : f \in Labelled(val_dir, label_ids, bg_label) }
  /\ label_log' = label_log \cup
       { <<"val", f, NewLabelName(f)>> : f \in Labelled(val_dir, label_ids, bg_label) }
  /\ pc' = "split_yaml"
  /\ UNCHANGED <<camVars, poseVars, calVars, splitArgs, splitImgs, label_ids,
                 bg_label, train_labels>>

\* lines 214-217: the YAML file is written and main returns
GenerateYaml ==
  /\ pc = "split_yaml"
  /\ pc' = "split_done"
  /\ UNCHANGED <<camVars, poseVars, calVars, splitVars>>

Next ==
  \/ AddObject
  \/ RemoveObject
  \/ RemoveReturn
  \/ OpenFailed
  \/ OpenStream
  \/ ReadFailed
  \/ ReadFrame
  \/ SkipWhilePaused
  \/ Detect
  \/ ForShortKeypoints
  \/ ForIndexError
  \/ ForSolve
  \/ ForEnd
  \/ AfterEstimate
  \/ NoKeyPoll
  \/ KeyQuit
  \/ KeyOther
  \/ CalNoSource
  \/ CalBegin
  \/ CalImgBreak
  \/ CalImgEnd
  \/ CalImgUnreadable
  \/ CalImgExtract
  \/ CalOpenFailed
  \/ CalOpenVideo
  \/ CalVidBreak
  \/ CalVidReadFailed
  \/ CalVidSkip
  \/ CalVidExtract
  \/ CalCalibrate
  \/ CalNoSamples
  \/ CalSummary
  \/ LoadCalibration
  \/ SplitBegin
  \/ SplitSubdir
  \/ CopyLabelsTrain
  \/ CopyLabelsVal
  \/ GenerateYaml

Spec == Init /\ [][Next]_vars

\* =================================================================
\* Claims
\* =================================================================

\* the sign pattern of the eight corners, in the order of the KEYPOINT MAP
CornerSigns ==
  << <<1, -1, -1>>, <<1, -1, 1>>, <<1, 1, 1>>, <<1, 1, -1>>,
     <<-1, -1, -1>>, <<-1, -1, 1>>, <<-1, 1, 1>>, <<-1, 1, -1>> >>

\* pts is the template of dims d: nine points, point k (k <= 8) is
\* (s1*L/2, s2*W/2, s3*H/2) for the k-th sign pattern, the ninth the origin,
\* and the eight corners are the eight sign combinations, each once
IsTemplateOf(pts, d) ==
  /\ Len(pts) = 9
  /\ \A k \in 1..8 : \A a \in 1..3 : 2 * pts[k][a] = CornerSigns[k][a] * d[a]
  /\ pts[9] = <<0, 0, 0>>
  /\ { pts[k] : k \in 1..8 } =
       { << sx * (d[1] \div 2), sy * (d[2] \div 2), sz * (d[3] \div 2) >> :
           sx \in {-1, 1}, sy \in {-1, 1}, sz \in {-1, 1} }
  /\ Cardinality({ pts[k] : k \in 1..8 }) = 8

\* C1: for every registered object the template lookup returns the nine
\* points (+-L/2, +-W/2, +-H/2) in the fixed order of the keypoint map followed
\* by the origin, and the template estimate_pose fetched for the instance it
\* last handed to the solver is that template.
C1_TemplateOrder ==
  /\ \A i \in 0..(Len(registered_obj) - 1) :
       IsTemplateOf(GetObject3DPoints(registered_obj, i), registered_obj[i + 1].dim)
  /\ solve_calls # <<>> =>
       IsTemplateOf(object_points,
         registered_obj[object_classes[solve_calls[Len(solve_calls)]] + 1].dim)

\* a template was fetched inside estimate_pose for an object of three
\* different dimensions
C1_Witness ==
  /\ solve_calls # <<>>
  /\ object_points # <<>>
  /\ registered_obj[object_classes[solve_calls[Len(solve_calls)]] + 1].dim = pouch_dims

\* C2: an instance with fewer than 9 keypoints is never handed to the solver,
\* no rotation or translation vector is produced for it, the loop never
\* advances past it, and when the loop reaches it the call returns through the
\* insufficient-keypoints branch (line 127).
C2_ShortNeverSolved ==
  \A i \in 1..Len(object_keypoints) :
    object_keypoints[i] < 9 =>
      /\ i \notin Range(solve_calls)
      /\ <<"rvec", i>> \notin Range(frame_rvecs) \cup Range(ret_rvecs)
      /\ <<"tvec", i>> \notin Range(frame_tvecs) \cup Range(ret_tvecs)
      /\ idx <= i
      /\ (idx = i /\ pc # "for_loop") => (pc = "returned" /\ exit_line = 127)

\* the loop solved one instance and then met a short one
C2_Witness ==
  /\ pc = "returned"
  /\ exit_line = 127
  /\ idx = 2
  /\ object_keypoints[2] < 9
  /\ solve_calls = <<1>>

\* C10: remove_object with a name that is not registered leaves the registry
\* (contents and order) as it was, and after any remove_object(n) a second
\* remove_object(n) would change nothing; the call has no failing path.
C10_UnregisterIdempotent ==
  pc = "removed" =>
    /\ (\A k \in 1..Len(rm_before) : rm_before[k].name # rm_name)
          => registered_obj = rm_before
    /\ RemoveObj(registered_obj, rm_name) = registered_obj

\* remove_object ran on a non-empty registry that does not hold the name
C10_Witness ==
  /\ pc = "removed"
  /\ rm_before # <<>>
  /\ \A k \in 1..Len(rm_before) : rm_before[k].name # rm_name

\* ------------------------------------------------ per-instance outcomes
Instances == 1..Len(object_classes)

\* the solver was invoked for instance i and reported pnp_ok
SolvedOk(i) == i \in Range(solve_calls) /\ <<"rvec", i>> \in Range(frame_rvecs)

\* the solver was invoked for instance i and reported failure
SolveFailed(i) == i \in Range(solve_calls) /\ <<"rvec", i>> \notin Range(frame_rvecs)

Unregistered(i) == object_classes[i] >= Len(registered_obj)

\* instance i cannot yield a pose
FailedInstance(i) ==
  object_keypoints[i] < 9 \/ Unregistered(i) \/ SolveFailed(i)

\* the pose of instance i is part of the value estimate_pose returned
Returned(i) ==
  /\ <<"rvec", i>> \in Range(ret_rvecs)
  /\ <<"tvec", i>> \in Range(ret_tvecs)

\* C3 (as claimed): when estimate_pose has returned, every instance with at
\* least 9 keypoints and a registered class was handed to the solver, and
\* every instance whose solve succeeded has its pose in the returned lists,
\* whatever the keypoint counts of the other instances.
C3_Orig ==
  pc = "returned" =>
    \A i \in Instances :
      (object_keypoints[i] >= 9 /\ ~Unregistered(i)) =>
        /\ i \in Range(solve_calls)
        /\ SolvedOk(i) => Returned(i)

\* C4 (as claimed): an instance whose class has no registry entry is skipped:
\* the solver is not invoked for it and the call does not end at the lookup of
\* line 129 with an exception.
C4_Orig ==
  \A i \in Instances :
    Unregistered(i) =>
      /\ i \notin Range(solve_calls)
      /\ ~(idx = i /\ exit_line = 129)

\* C5 (as claimed): the stream loop is left only on end-of-stream / read
\* failure or on the quit key.
C5_Orig ==
  pc = "stopped" => exit_reason \in {"eos", "quit"}

\* C6 (as claimed): in a frame where some instance's solve failed, no pose is
\* recorded for that instance, the call does not raise, and once the call is
\* over every other instance with at least 9 keypoints and a registered class
\* was handed to the solver and every successful pose is in the returned lists.
C6_Orig ==
  \A i \in Instances :
    SolveFailed(i) =>
      /\ <<"tvec", i>> \notin Range(frame_tvecs)
      /\ exit_line # 129
      /\ exit_line # 0 =>
           \A j \in Instances \ {i} :
             /\ (object_keypoints[j] >= 9 /\ ~Unregistered(j)) => j \in Range(solve_calls)
             /\ SolvedOk(j) => Returned(j)

\* everything the returned value says about single instances: the entries of
\* its two lists (the first component is the annotated image)
OutputEntries == Range(ret_rvecs) \cup Range(ret_tvecs)

FailureReasons == {"InsufficientKeypoints", "ClassNotRegistered", "SolveFailed"}

\* C7 (as claimed): when estimate_pose has returned, the returned value holds,
\* for every instance without a pose, an entry that names the instance and its
\* failure reason.
C7_Orig ==
  pc = "returned" =>
    \A i \in Instances :
      FailedInstance(i) =>
        \E e \in OutputEntries : e[1] \in FailureReasons /\ e[2] = i

\* C8 (as claimed): per frame detect_objects runs once and before any solve,
\* the solver sees the instances in detector order and each at most once, and
\* the returned lists are exactly the poses of the instances whose solve
\* succeeded, in that order.
C8_Orig ==
  /\ detect_calls <= 1
  /\ solve_calls # <<>> => detect_calls = 1
  /\ \A a, b \in 1..Len(solve_calls) : a < b => solve_calls[a] < solve_calls[b]
  /\ \A a, b \in 1..Len(frame_rvecs) : a < b => frame_rvecs[a][2] < frame_rvecs[b][2]
  /\ pc = "returned" =>
       /\ ret_rvecs = frame_rvecs
       /\ ret_tvecs = frame_tvecs

\* C9 (as claimed): a frame all of whose instances fail (or that has none)
\* ends by returning two empty lists, never by an exception.
C9_Orig ==
  (exit_line # 0 /\ \A i \in Instances : FailedInstance(i)) =>
    /\ exit_line # 129
    /\ pc = "returned"
    /\ ret_rvecs = <<>>
    /\ ret_tvecs = <<>>

\* C11 (as claimed): names are unique keys of the registry: no two entries
\* carry the same name, so registering a name that is already registered
\* leaves one entry for it.
C11_Orig ==
  \A a, b \in 1..Len(registered_obj) :
    a # b => registered_obj[a].name # registered_obj[b].name

\* ----------------------------------------------------- calibration claims
\* the calibration section (lines 117-126) is over
CalSectionOver == pc \in {"cal_summary", "cal_done", "loaded"}

\* C12: calibrateCamera runs at most once and only on a non-empty sample
\* set; a run that accepted no sample ends its calibration section with the
\* "calibration failed" outcome, without a camera model and without an
\* artifact; the artifact is written if and only if a sample was accepted.
C12_NoSolveOnEmpty ==
  /\ cal_solves <= 1
  /\ cal_solves = 1 => (objpoints # <<>> /\ imgpoints # <<>> /\ good_frames >= 1)
  /\ artifact # {} => (cal_solves = 1 /\ good_frames >= 1)
  /\ (CalSectionOver /\ good_frames = 0) =>
       (cal_outcome = "no_samples" /\ cal_result = <<>> /\ artifact = {})
  /\ CalSectionOver => (artifact # {} <=> good_frames >= 1)

\* a run that looked at frames, found the board in none and has ended
C12_Witness ==
  /\ pc = "cal_done"
  /\ good_frames = 0
  /\ bad_frames >= 2
  /\ cal_outcome = "no_samples"

\* C13 (as claimed): a calibration run that accepted no sample ends with a
\* non-zero exit status after printing the summary, and status zero means the
\* artifact was written.
C13_Orig ==
  exit_status # "running" =>
    /\ good_frames = 0 => (exit_status # "0" /\ summary_printed)
    /\ exit_status = "0" => artifact # {}

\* C14: the accepted counter equals the number of 3D samples, the number of
\* 2D samples and the number of frames in which the board was found; the
\* failed counter equals the number of frames tried without finding it; so
\* every frame tried incremented exactly one counter and a frame without the
\* board added no sample.
C14_Counters ==
  /\ good_frames = Len(objpoints)
  /\ good_frames = Len(imgpoints)
  /\ good_frames = Cardinality(cal_accepted)
  /\ bad_frames = Cardinality(cal_attempted \ cal_accepted)
  /\ good_frames + bad_frames = Cardinality(cal_attempted)
  /\ cal_accepted \subseteq cal_attempted

\* the loop is still running after a frame without the board and one with it
C14_Witness ==
  /\ pc \in {"cal_images", "cal_video"}
  /\ cal_pool # {}
  /\ bad_frames >= 1
  /\ good_frames >= 1

\* C15: every accumulated 3D point set has rows x cols points and its point
\* k (from 0) is ((k mod cols) * size, (k div cols) * size, 0), and there is
\* one 3D point set per 2D corner set.
C15_BoardPoints ==
  /\ Len(objpoints) = Len(imgpoints)
  /\ \A n \in 1..Len(objpoints) :
       /\ Len(objpoints[n]) = checkerboard_size[1] * checkerboard_size[2]
       /\ \A k \in 0..(checkerboard_size[1] * checkerboard_size[2] - 1) :
            objpoints[n][k + 1] =
              << (k % checkerboard_size[1]) * square_size,
                 (k \div checkerboard_size[1]) * square_size,
                 0 >>

\* two samples of a board with three columns and two rows
C15_Witness ==
  /\ Len(objpoints) >= 2
  /\ checkerboard_size = <<3, 2>>

\* C16: in whatever order the source delivers its frames, the accumulated
\* collection is, as a multiset, one pair (board points, corners of f) for
\* every frame f in which the board was found, and nothing else.
C16_OrderIndependent ==
  /\ Len(objpoints) = Len(imgpoints)
  /\ \A k \in 1..Len(objpoints) : objpoints[k] = objp
  /\ \A f \in 1..MaxCalFrames :
       Cardinality({ k \in 1..Len(imgpoints) : imgpoints[k] = Corners(f) })
         = IF f \in cal_accepted THEN 1 ELSE 0
  /\ \A k \in 1..Len(imgpoints) : \E f \in cal_accepted : imgpoints[k] = Corners(f)

\* the solve ran on samples that were accumulated against the frame numbering
C16_Witness ==
  /\ cal_solves = 1
  /\ imgpoints = << Corners(2), Corners(1) >>

\* C19: the bundle the calibration wrote has exactly the keys camera_matrix
\* and dist_coeffs, and what the pose runtime loads under these keys is the
\* matrix and the coefficients the solve returned.
C19_RoundTrip ==
  /\ artifact # {} =>
       /\ { e[1] : e \in artifact } = {"camera_matrix", "dist_coeffs"}
       /\ Cardinality(artifact) = 2
  /\ pc = "loaded" =>
       /\ camera_matrix = cal_result[1]
       /\ dist_coeffs = cal_result[2]

\* the pose runtime loaded a calibration with distortion
C19_Witness ==
  /\ pc = "loaded"
  /\ camera_matrix = LensCamera
  /\ dist_coeffs = LensDist

\* ------------------------------------------------- pose session claims
PosePcs == {"setup", "removed", "loop_top", "detect", "for_loop", "returned",
            "keys", "stopped", "not_opened"}

\* C17: no step of a pose session (register, unregister, template lookup,
\* detection, the solve, the return, the axis overlay, the key handling)
\* changes camera_matrix or dist_coeffs.
C17_CameraReadOnly ==
  [][ (pc \in PosePcs) =>
        (camera_matrix' = camera_matrix /\ dist_coeffs' = dist_coeffs) ]_vars

\* a second frame has been estimated, with a solve, under the loaded camera
C17_Witness ==
  /\ pc = "returned"
  /\ frames_read = 2
  /\ solve_calls # <<>>
  /\ camera_matrix = LensCamera
  /\ dist_coeffs = LensDist

\* the lists estimate_pose returns, as a function of the current frame alone:
\* empty when some instance is short, else the poses of the instances of this
\* frame the solver accepted, in detector order
ExpectedPoses(tag) ==
  IF \E i \in Instances : object_keypoints[i] < 9 THEN <<>>
  ELSE LET ok == SelectSeq([i \in Instances |-> i], LAMBDA i : i \in pnp_oks)
       IN [k \in 1..Len(ok) |-> <<tag, ok[k]>>]

ExpectedRvecs == ExpectedPoses("rvec")

ExpectedTvecs == ExpectedPoses("tvec")

\* C18: estimate_pose keeps nothing from earlier frames: whatever frames came
\* before, the lists it returns are determined by the current frame's
\* detections and the solver's verdicts on them, and no step of it changes the
\* registry.
C18_Stateless ==
  [][ /\ (pc \in {"detect", "for_loop", "returned"}) => registered_obj' = registered_obj
      /\ pc' = "returned" =>
           /\ ret_rvecs' = ExpectedRvecs'
           /\ ret_tvecs' = ExpectedTvecs' ]_vars

\* the second frame returned fewer poses than the first one left behind
C18_Witness ==
  /\ pc = "returned"
  /\ frames_read = 2
  /\ exit_line = 149
  /\ Len(ret_rvecs) = 1
  /\ Len(object_classes) = 1

\* C20: when the source cannot be opened the run is over at once: it was
\* opened once, no frame was read, no detection, corner extraction or solve
\* ran, and the calibration wrote no artifact; and no run opens its source
\* more than once.
C20_OpenFailureEndsRun ==
  /\ cap_opens <= 1
  /\ cal_opens <= 1
  /\ exit_reason = "open_failed" =>
       /\ pc = "not_opened"
       /\ cap_opens = 1
       /\ frames_read = 0
       /\ detect_calls = 0
       /\ solve_calls = <<>>
  /\ cal_outcome = "open_failed" =>
       /\ pc = "cal_exit"
       /\ cal_opens = 1
       /\ cal_reads = 0
       /\ cal_attempted = {}
       /\ cal_solves = 0
       /\ artifact = {}

\* the pose runtime could not open its source, with an object registered
C20_Witness ==
  /\ pc = "not_opened"
  /\ exit_reason = "open_failed"
  /\ registered_obj # <<>>

\* ------------------------------------------------ overlay and registry
\* C21 (as claimed): the projection step changes none of its inputs, in
\* particular not the image the caller passes: the overlay step of the loop
\* leaves annotated_frame as estimate_pose returned it.
C21_Orig ==
  [][ (pc = "returned") => frame_img' = frame_img ]_vars

C25_PairedLists ==
  /\ Len(frame_rvecs) = Len(frame_tvecs)
  /\ pc = "returned" =>
       /\ Len(ret_rvecs) = Len(ret_tvecs)
       /\ Len(ret_rvecs) <= Len(object_classes)
       /\ \A k \in 1..Len(ret_rvecs) :
            /\ ret_rvecs[k][1] = "rvec"
            /\ ret_tvecs[k][1] = "tvec"
            /\ ret_rvecs[k][2] = ret_tvecs[k][2]
            /\ ret_rvecs[k][2] \in Instances \cap pnp_oks
       /\ \A a, b \in 1..Len(ret_rvecs) : a # b => ret_rvecs[a][2] # ret_rvecs[b][2]

\* a frame of two instances returned one pose: the first solve failed
C25_Witness ==
  /\ pc = "returned"
  /\ Len(object_classes) = 2
  /\ solve_calls = <<1, 2>>
  /\ ret_rvecs = << <<"rvec", 2>> >>
  /\ ret_tvecs = << <<"tvec", 2>> >>

\* C26: after remove_object(name) the registry is the old one without the
\* entries of that name, the others in their old order: an old entry at
\* position j that is kept sits at j minus the number of removed entries
\* before it, and the template lookup at that index gives its template.
C26_PositionalLookup ==
  pc = "removed" =>
    LET kept(j) == rm_before[j].name # rm_name
        removedBefore(j) == Cardinality({ k \in 1..(j - 1) : ~kept(k) })
    IN /\ Len(registered_obj) = Cardinality({ j \in 1..Len(rm_before) : kept(j) })
       /\ \A i \in 1..Len(registered_obj) : registered_obj[i].name # rm_name
       /\ \A j \in 1..Len(rm_before) :
            kept(j) =>
              /\ registered_obj[j - removedBefore(j)] = rm_before[j]
              /\ GetObject3DPoints(registered_obj, (j - 1) - removedBefore(j))
                   = GetObject3DPoints(rm_before, j - 1)
              /\ IsTemplateOf(
                   GetObject3DPoints(registered_obj, (j - 1) - removedBefore(j)),
                   rm_before[j].dim)

\* the entry registered second moved from class index 1 to class index 0
C26_Witness ==
  /\ pc = "removed"
  /\ Len(rm_before) = 2
  /\ rm_before[1].name = rm_name
  /\ rm_before[2].name # rm_name
  /\ rm_before[1].dim # rm_before[2].dim
  /\ registered_obj = << rm_before[2] >>

\* ------------------------------------------------------ the stream loop
\* C27: whenever the stream loop has been left (end of stream or read
\* failure, quit key, exception in a frame) the capture is released, and the
\* writer too if one was created; nothing is released while the loop runs;
\* the quit key leaves the loop at once, and after the loop was left no frame
\* is read, estimated or written.
C27_CleanExit ==
  /\ [](pc = "stopped" =>
          /\ exit_reason \in {"eos", "quit", "exception"}
          /\ cap_released
          /\ writer => writer_released)
  /\ [](exit_reason = "quit" => pc = "stopped")
  /\ [](pc \in {"loop_top", "detect", "for_loop", "returned", "keys"} =>
          ~cap_released /\ ~writer_released)
  /\ [][ (pc = "stopped") =>
           UNCHANGED <<frames_read, detect_calls, solve_calls, frames_written>> ]_vars

\* an exception in the second frame left the loop, capture and writer released
C27_Witness ==
  /\ pc = "stopped"
  /\ exit_reason = "exception"
  /\ frames_read = 2
  /\ writer
  /\ writer_released
  /\ cap_released

\* C28 (as claimed): while paused no frame is being read or estimated, and a
\* headless loop never becomes paused and ends only at end-of-stream.
C28_Orig ==
  /\ paused => pc \in {"loop_top", "keys", "stopped"}
  /\ headless => ~paused
  /\ (headless /\ pc = "stopped") => exit_reason = "eos"

\* ------------------------------------------------ calibration, continued
\* the frame loop of the calibration command is over
CalLoopOver == pc \in {"cal_calib", "cal_summary", "cal_done", "loaded"}

\* C22: with --limit L > 0 the accepted samples, the frames tried (good +
\* bad) and the reported total never exceed L, in either mode and for any
\* --jump; with L = 0 the limit never ends the loop and the image loop ends
\* only when every image was considered.
C22_LimitCaps ==
  /\ cal_limit > 0 =>
       /\ good_frames <= cal_limit
       /\ good_frames + bad_frames <= cal_limit
       /\ Cardinality(cal_attempted) <= cal_limit
       /\ frame_index <= cal_limit
  /\ cal_limit = 0 =>
       /\ ~LimitReached
       /\ (cal_mode = "image" /\ CalLoopOver) => cal_pool = {}

\* the limit ended a video run with --jump while the source had frames left
C22_Witness ==
  /\ pc = "cal_calib"
  /\ cal_mode = "video"
  /\ cal_jump = 1
  /\ cal_limit = 2
  /\ frame_index = 2
  /\ cal_pool # {}

\* C24: in video mode every frame read advances the frame index by one, and
\* findChessboardCorners is tried on it exactly when --jump is 0 or the index
\* is a multiple of J + 1; a skipped frame changes neither counter nor the
\* samples; in image mode every image read is tried, whatever --jump is.
C24_JumpStride ==
  [][ /\ (cal_mode = "video" /\ cal_reads' = cal_reads + 1) =>
           /\ frame_index' = frame_index + 1
           /\ (cal_attempted' # cal_attempted)
                <=> (cal_jump = 0 \/ frame_index % (cal_jump + 1) = 0)
           /\ (cal_attempted' = cal_attempted) =>
                UNCHANGED <<good_frames, bad_frames, objpoints, imgpoints>>
           /\ (cal_attempted' # cal_attempted) =>
                good_frames' + bad_frames' = good_frames + bad_frames + 1
      /\ (cal_mode = "image" /\ cal_reads' = cal_reads + 1) =>
           /\ cal_attempted' # cal_attempted
           /\ good_frames' + bad_frames' = good_frames + bad_frames + 1 ]_vars

\* three frames of a video with --jump 1: frames 0 and 2 tried, frame 1 skipped
C24_Witness ==
  /\ cal_mode = "video"
  /\ cal_jump = 1
  /\ frame_index = 3
  /\ cal_reads = 3
  /\ Cardinality(cal_attempted) = 2

\* ------------------------------------------------------ dataset splitter
\* C29: of every subdirectory the loop has handled, every .jpg was copied to
\* exactly one of train/images and val/images and is there under its new
\* name, no other file was copied, and the number copied to train is the
\* floor of n x split_ratio, n being the number of .jpg files.
C29_Partition ==
  /\ \A rec \in copied : <<rec[1], rec[2]>> \in datasource /\ rec[3] \in {"train", "val"}
  /\ \A e \in datasource :
       LET toTrain == <<e[1], e[2], "train">> \in copied
           toVal == <<e[1], e[2], "val">> \in copied
       IN IF e[1] \in split_todo \/ ~EndsWith(e[2], <<".", "jpg">>)
          THEN ~toTrain /\ ~toVal
          ELSE /\ toTrain \/ toVal
               /\ ~(toTrain /\ toVal)
               /\ toTrain => NewName(e[1], e[2]) \in train_dir
               /\ toVal => NewName(e[1], e[2]) \in val_dir
  /\ \A d \in SubdirInputs \ split_todo :
       LET n == Cardinality({ e \in datasource :
                                e[1] = d /\ EndsWith(e[2], <<".", "jpg">>) })
           t == Cardinality({ rec \in copied : rec[1] = d /\ rec[3] = "train" })
       IN /\ t * RatioDen <= n * split_ratio
          /\ n * split_ratio < (t + 1) * RatioDen

\* a subdirectory of three images was split 2 : 1 at ratio 0.8
C29_Witness ==
  /\ pc = "split_done"
  /\ split_ratio = 8
  /\ \E d \in SubdirInputs :
       /\ Cardinality({ rec \in copied : rec[1] = d /\ rec[3] = "train" }) = 2
       /\ Cardinality({ rec \in copied : rec[1] = d /\ rec[3] = "val" }) = 1

\* C30 (as claimed): every label file copy_labels writes has the base name of
\* the image it was written for, with .txt in place of .jpg.
C30_Orig ==
  \A rec \in label_log :
    rec[3] = SubSeq(rec[2], 1, Len(rec[2]) - 2) \o <<".", "txt">>

====
